---- MODULE Spec2Model ----
(***************************************************************************)
(* A model of adobe_usage.py (class AdobeAPI): the paginated audit-log     *)
(* fetcher, the submission guard with the submitter, and the bulk-import   *)
(* export formatter.  Each component is a sequential procedure; its        *)
(* position is a pc variable and every step of its code is one action.     *)
(* The components do not run concurrently, so each has its own             *)
(* specification over the shared variables.                                *)
(***************************************************************************)
EXTENDS Integers, Sequences, FiniteSets, TLC

(***************************************************************************)
(* Bounds of the model.                                                    *)
(***************************************************************************)
\* the end date of a fetch is one of the days 0..MaxDay
MaxDay == 180
\* the start date of a fetch is one of the days 0..MaxStartDay
MaxStartDay == 1
\* the server reports lastPage at the latest on page index MaxPages - 1
MaxPages == 2
\* a page holds at most MaxPageLen records
MaxPageLen == 1
\* the submission operations are invoked at most MaxCalls times on a session
MaxCalls == 2
\* the reporting endpoint reports a total of 0..MaxTotal occurrences
MaxTotal == 4
\* an export file given to the submission guard has at most MaxCsvRows rows
MaxCsvRows == 2
\* the JSON file given to the enrichment steps has at most MaxEvents records
MaxEvents == 2
\* the JSON file given to the export formatter has at most MaxRecords records
MaxRecords == 4
\* a JSON file that is exported and then parsed back has at most MaxDated records
MaxDated == 3

(***************************************************************************)
(* The state.                                                              *)
(***************************************************************************)
VARIABLES
    fpc,                 \* position in get_usage_audit_logs
    start_date,          \* argument: first day of the range
    end_date,            \* argument: last day of the range
    start_date_dt,       \* local
    end_date_dt,         \* local
    current_start_date,  \* local, the sub-window after inclusive_date_range
    current_end_date,    \* local
    page,                \* local
    has_more_pages,      \* local
    all_data,            \* local, the records collected so far
    exchanges,           \* history: every request sent with the response to it
    fresult,             \* what the invocation returned or raised
    filters,             \* arguments login, ip, rsid, event_type and event
    limit                \* argument: the number of items per page

fetchVars == <<fpc, start_date, end_date, start_date_dt, end_date_dt,
               current_start_date, current_end_date, page, has_more_pages,
               all_data, exchanges, fresult, filters, limit>>

VARIABLES
    spc,               \* position in the invoked operation
    op,                \* the operation the caller invoked
    ncalls,            \* number of invocations completed on this session
    headers,           \* self.session.headers, keyed by lower-cased name
    headers_before,    \* history: session.headers when the operation was invoked
    fs_gzip,           \* whether the file csv_file_path + ".gz" exists
    csv_file,          \* the data rows of the file at csv_file_path
    response,          \* local: the response of the last request
    validation_result, \* local of bulk_data_insertion
    has_existing_data, \* local of bulk_data_insertion
    sent,              \* history: requests of this invocation with their responses
    sresult            \* what the invocation returned or raised

submitVars == <<spc, op, ncalls, headers, headers_before, fs_gzip, csv_file,
                response, validation_result, has_existing_data, sent, sresult>>

VARIABLES
    wpc,        \* position in write_to_csv_for_bulk_import
    json_data,  \* the records of the file at json_file_path
    rsid,       \* argument: the report suite id
    log_index,  \* the loop's position: index of the record `log`
    login,      \* local: bound only by the branch for a non-null login
    csv_rows,   \* the rows written to the file at csv_file_path so far
    wresult,    \* what the invocation returned or raised
    utcoffset,  \* the UTC offset of the process's local time zone, in seconds
    extracted   \* what extract_rsid_and_date_range gave for the written file

exportVars == <<wpc, json_data, rsid, log_index, login, csv_rows, wresult,
                utcoffset, extracted>>

VARIABLES
    rpc,             \* position in inclusive_date_range
    arg_start_date,  \* argument start_date: a "%Y-%m-%d" string as year, month, day
    arg_end_date,    \* argument end_date
    window           \* what the invocation returned or raised

rangeVars == <<rpc, arg_start_date, arg_end_date, window>>

VARIABLES
    epc,               \* "ready" between enrichment calls, "raised" after a failure
    json_file,         \* the records of the JSON file at json_file_path
    json_file_before,  \* history: the file before the first enrichment call
    applied,           \* history: the enrichment calls made, in order
    eresult            \* what the last enrichment call returned or raised

enrichVars == <<epc, json_file, json_file_before, applied, eresult>>

vars == <<fetchVars, submitVars, exportVars, rangeVars, enrichVars>>

(***************************************************************************)
(* Dates and times.  A datetime is a number of seconds since the midnight  *)
(* that starts day 0; a "%Y-%m-%d" string is a day number; a               *)
(* "%Y-%m-%dT%H:%M:%S" string is a record of a day and a second of day.    *)
(***************************************************************************)
SecondsPerDay == 86400

\* timedelta(days=d, seconds=s)
timedelta(d, s) == d * SecondsPerDay + s

\* datetime.strptime(s, "%Y-%m-%d"): midnight of the day
strptime_date(s) == s * SecondsPerDay

\* dt.strftime("%Y-%m-%d"): the time of day is dropped
strftime_date(dt) == dt \div SecondsPerDay

\* dt.strftime("%Y-%m-%dT%H:%M:%S")
strftime_iso(dt) == [date |-> dt \div SecondsPerDay, time |-> dt % SecondsPerDay]

Min(a, b) == IF a <= b THEN a ELSE b

\* The value of an absent result or of an unset local.
None == "None"

\* An optional number or boolean: None is the empty sequence, a value v is <<v>>.
NoneNum == <<>>
Some(v) == <<v>>

\* A value of JSON or of an untyped argument: a record tagged with its type;
\* None and null are JsonNull.
JsonNull == [type |-> "null"]
StrVal(t) == [type |-> "str", text |-> t]
IntVal(n) == [type |-> "int", num |-> n]
FloatVal(n, f) == [type |-> "float", whole |-> n, fraction |-> f]
BoolVal(b) == [type |-> "bool", bool |-> b]

\* an adjustment that leaves the end at the midnight after the end date:
\* end_date_dt += timedelta(days=1)
inclusive_date_range_to_midnight(start, end) ==
    LET start_dt == strptime_date(start)
        end_dt   == strptime_date(end)
    IN  IF start_dt > end_dt
        THEN [raised |-> "ValueError"]
        ELSE [raised |-> None,
              start  |-> start_dt,
              end    |-> end_dt + timedelta(1, 0)]

\* no test of the order of the dates
inclusive_date_range_unchecked(start, end) ==
    [raised |-> None,
     start  |-> strptime_date(start),
     end    |-> strptime_date(end) + timedelta(1, -1)]

\* inclusive_date_range: the window, or the ValueError it raises
inclusive_date_range(start, end) ==
    LET start_dt == strptime_date(start)
        end_dt   == strptime_date(end)
    IN  IF start_dt > end_dt
        THEN [raised |-> "ValueError"]
        ELSE [raised |-> None,
              start  |-> start_dt,
              end    |-> end_dt + timedelta(1, -1)]

(***************************************************************************)
(* inclusive_date_range called with calendar dates.  datetime.strptime     *)
(* turns the year, month and day of the string into a day of the proleptic *)
(* Gregorian calendar; days are counted here from 2020-01-01.              *)
(***************************************************************************)
IsLeap(y) == (y % 4 = 0 /\ y % 100 # 0) \/ y % 400 = 0

DaysInMonth(y, m) ==
    CASE m = 2               -> IF IsLeap(y) THEN 29 ELSE 28
      [] m \in {4, 6, 9, 11} -> 30
      [] OTHER               -> 31

\* the dates of the calendar's years 2020 (a leap year) to 2022
CalendarDates ==
    {c \in [year : 2020..2022, month : 1..12, day : 1..31] :
        c.day <= DaysInMonth(c.year, c.month)}

\* the dates given as arguments: the ends and the first days of the months
\* of 2020 and 2021
ArgumentDates == {c \in CalendarDates : c.year <= 2021 /\ (c.day >= 28 \/ c.day = 1)}

RECURSIVE DaysBeforeYear(_)
DaysBeforeYear(y) ==
    IF y = 2020 THEN 0
    ELSE DaysBeforeYear(y - 1) + (IF IsLeap(y - 1) THEN 366 ELSE 365)

RECURSIVE DaysBeforeMonth(_, _)
DaysBeforeMonth(y, m) ==
    IF m = 1 THEN 0 ELSE DaysBeforeMonth(y, m - 1) + DaysInMonth(y, m - 1)

\* the day number of the date a "%Y-%m-%d" string names
DayOf(c) == DaysBeforeYear(c.year) + DaysBeforeMonth(c.year, c.month) + c.day - 1

RangeInit ==
    /\ rpc = "call"
    /\ arg_start_date \in ArgumentDates
    /\ arg_end_date \in ArgumentDates
    /\ window = [raised |-> "running"]

RangeIdle ==
    /\ rpc = "idle"
    /\ arg_start_date = [year |-> 2020, month |-> 1, day |-> 1]
    /\ arg_end_date = [year |-> 2020, month |-> 1, day |-> 1]
    /\ window = [raised |-> "idle"]

\* the whole of inclusive_date_range(start_date, end_date)
RangeCall ==
    /\ rpc = "call"
    /\ window' = inclusive_date_range(DayOf(arg_start_date), DayOf(arg_end_date))
    /\ rpc' = IF window'.raised = None THEN "returned" ELSE "raised"
    /\ UNCHANGED <<arg_start_date, arg_end_date>>
    /\ UNCHANGED <<fetchVars, submitVars, exportVars, enrichVars>>

(***************************************************************************)
(* get_usage_audit_logs                                                    *)
(***************************************************************************)
\* timedelta(days=89) of the chunk computation
ChunkDays == 89

\* a chunk end one day further: min(current_start_date + timedelta(days=90), ...)
ChunkEndOffByOne(cs, e) == Min(cs + timedelta(ChunkDays + 1, 0), e)

\* current_end_date = min(current_start_date + timedelta(days=89), end_date_dt)
ChunkEnd(cs, e) == Min(cs + timedelta(ChunkDays, 0), e)

\* HTTP status codes a response can carry, and the body a failure carries
StatusCodes == {200, 401, 500}
ResponseText(status_code) ==
    CASE status_code = 200 -> ""
      [] status_code = 401 -> "unauthorized"
      [] OTHER             -> "server error"

\* The records the server holds for a page: each is named by the window,
\* the page and its place in the page, so that no two records are equal.
PageContent(startDate, p, n) == [k \in 1..n |-> <<startDate.date, p, k>>]

\* a status test that fails server errors only: response.status_code < 500
IsSuccessLax(status_code) == status_code < 500

\* response.status_code == 200
IsSuccess(status_code) == status_code = 200

\* the page put in front of the collected records
ExtendFront(data, content) == content \o data

\* all_data.extend(data_page["content"])
Extend(data, content) == data \o content

\* The locals of the loops before their first assignment: no datetime and no
\* page index (has_more_pages is FALSE until the page loop is entered).
NotYet == -1

\* the defaults of the optional arguments: no filter, limit=1000
NoFilters == [k \in {"login", "ip", "rsid", "eventType", "event"} |-> JsonNull]
DefaultLimit == 1000

\* `if value:` the truth value of an argument
truthy(v) ==
    CASE v.type = "null" -> FALSE
      [] v.type = "str"  -> v.text # <<>>
      [] v.type = "int"  -> v.num # 0
      [] v.type = "bool" -> v.bool
      [] OTHER           -> TRUE

\* for key, value in optional_params.items(): if value: params[key] = value
with_optional_params(params, optional_params) ==
    [k \in DOMAIN params \cup {o \in DOMAIN optional_params : truthy(optional_params[o])} |->
        IF k \in DOMAIN optional_params THEN optional_params[k] ELSE params[k]]

FetchInit ==
    /\ filters = NoFilters
    /\ limit = DefaultLimit
    /\ start_date \in 0..MaxStartDay
    /\ end_date \in 0..MaxDay
    /\ fpc = "while_window"
    /\ start_date_dt = strptime_date(start_date)
    /\ end_date_dt = strptime_date(end_date)
    /\ current_start_date = NotYet
    /\ current_end_date = NotYet
    /\ page = NotYet
    /\ has_more_pages = FALSE
    /\ all_data = <<>>
    /\ exchanges = <<>>
    /\ fresult = [kind |-> "running"]

\* the filters a caller passes: texts, the empty text, and event types given
\* as integers or as a numeral
FilterArguments ==
    [login     : {JsonNull, StrVal(<<"jdoe">>)},
     ip        : {JsonNull, StrVal(<<"10.0.0.1">>)},
     rsid      : {JsonNull, StrVal(<<"rs1">>)},
     eventType : {JsonNull, IntVal(0), IntVal(5), StrVal(<<"0">>)},
     event     : {JsonNull, StrVal(<<"viewed">>), StrVal(<<>>)}]

\* a call with filters and a limit, for a range of one day and for a range
\* of two sub-windows
FetchFilteredInit ==
    /\ filters \in FilterArguments
    /\ limit \in {DefaultLimit, 50}
    /\ start_date = 0
    /\ end_date \in {0, ChunkDays + 2}
    /\ fpc = "while_window"
    /\ start_date_dt = strptime_date(start_date)
    /\ end_date_dt = strptime_date(end_date)
    /\ current_start_date = NotYet
    /\ current_end_date = NotYet
    /\ page = NotYet
    /\ has_more_pages = FALSE
    /\ all_data = <<>>
    /\ exchanges = <<>>
    /\ fresult = [kind |-> "running"]

FetchIdle ==
    /\ filters = NoFilters
    /\ limit = DefaultLimit
    /\ start_date = 0
    /\ end_date = 0
    /\ fpc = "idle"
    /\ start_date_dt = None
    /\ end_date_dt = None
    /\ current_start_date = NotYet
    /\ current_end_date = NotYet
    /\ page = NotYet
    /\ has_more_pages = FALSE
    /\ all_data = <<>>
    /\ exchanges = <<>>
    /\ fresult = [kind |-> "idle"]

\* while start_date_dt <= end_date_dt: the body up to the page loop
FetchWindow ==
    /\ fpc = "while_window"
    /\ start_date_dt <= end_date_dt
    /\ LET cs == start_date_dt
           ce == ChunkEnd(cs, end_date_dt)
           w  == inclusive_date_range(strftime_date(cs), strftime_date(ce))
       IN  IF w.raised # None
           THEN /\ fpc' = "raised"
                /\ fresult' = [kind |-> w.raised]
                /\ UNCHANGED <<current_start_date, current_end_date, page,
                               has_more_pages>>
           ELSE /\ current_start_date' = w.start
                /\ current_end_date' = w.end
                /\ page' = 0
                /\ has_more_pages' = TRUE
                /\ fpc' = "while_page"
                /\ UNCHANGED fresult
    /\ UNCHANGED <<filters, limit>>
    /\ UNCHANGED <<start_date, end_date, start_date_dt, end_date_dt, all_data,
                   exchanges>>
    /\ UNCHANGED <<submitVars, exportVars, rangeVars, enrichVars>>

\* the loop condition fails: return all_data
FetchReturn ==
    /\ fpc = "while_window"
    /\ ~(start_date_dt <= end_date_dt)
    /\ fpc' = "returned"
    /\ fresult' = [kind |-> "return", value |-> all_data]
    /\ UNCHANGED <<filters, limit>>
    /\ UNCHANGED <<start_date, end_date, start_date_dt, end_date_dt,
                   current_start_date, current_end_date, page, has_more_pages,
                   all_data, exchanges>>
    /\ UNCHANGED <<submitVars, exportVars, rangeVars, enrichVars>>

\* while has_more_pages: one request and the handling of its response
FetchPage ==
    /\ fpc = "while_page"
    /\ has_more_pages = TRUE
    /\ \E status_code \in StatusCodes, n \in 0..MaxPageLen, lastPage \in BOOLEAN :
         \* a failure carries no page; the server's pages of a window end
         \* within MaxPages
         /\ status_code # 200 => n = 0 /\ lastPage = FALSE
         /\ (status_code = 200 /\ page >= MaxPages - 1) => lastPage
         /\ LET params == with_optional_params(
                               [startDate |-> strftime_iso(current_start_date),
                                endDate   |-> strftime_iso(current_end_date),
                                limit     |-> limit,
                                page      |-> page],
                               filters)
                content == PageContent(params.startDate, page, n)
                resp == [status_code |-> status_code,
                         text        |-> ResponseText(status_code),
                         content     |-> content,
                         lastPage    |-> lastPage]
            IN  /\ exchanges' = Append(exchanges, [params |-> params, response |-> resp])
                /\ IF IsSuccess(status_code)
                   THEN /\ all_data' = Extend(all_data, content)
                        /\ has_more_pages' = ~lastPage
                        /\ page' = page + 1
                        /\ UNCHANGED <<fpc, fresult>>
                   ELSE /\ fpc' = "raised"
                        /\ fresult' = [kind        |-> "RequestFailure",
                                       status_code |-> status_code,
                                       text        |-> resp.text]
                        /\ UNCHANGED <<all_data, has_more_pages, page>>
    /\ UNCHANGED <<filters, limit>>
    /\ UNCHANGED <<start_date, end_date, start_date_dt, end_date_dt,
                   current_start_date, current_end_date>>
    /\ UNCHANGED <<submitVars, exportVars, rangeVars, enrichVars>>

\* a loop that asks for the same sub-window again: start_date_dt = current_start_date
FetchAdvanceNowhere ==
    /\ fpc = "while_page"
    /\ has_more_pages = FALSE
    /\ start_date_dt' = current_start_date
    /\ fpc' = "while_window"
    /\ UNCHANGED <<filters, limit>>
    /\ UNCHANGED <<start_date, end_date, end_date_dt, current_start_date,
                   current_end_date, page, has_more_pages, all_data, exchanges,
                   fresult>>
    /\ UNCHANGED <<submitVars, exportVars, rangeVars, enrichVars>>

\* the page loop ends: start_date_dt = current_end_date + timedelta(days=1)
FetchAdvance ==
    /\ fpc = "while_page"
    /\ has_more_pages = FALSE
    /\ start_date_dt' = current_end_date + timedelta(1, 0)
    /\ fpc' = "while_window"
    /\ UNCHANGED <<filters, limit>>
    /\ UNCHANGED <<start_date, end_date, end_date_dt, current_start_date,
                   current_end_date, page, has_more_pages, all_data, exchanges,
                   fresult>>
    /\ UNCHANGED <<submitVars, exportVars, rangeVars, enrichVars>>

(***************************************************************************)
(* The session, validate_csv, is_there_existing_data_for_date_range and    *)
(* bulk_data_insertion                                                     *)
(***************************************************************************)
\* requests.Session() (its default headers) followed by _connect()
SessionHeaders ==
    [h \in {"user-agent", "accept-encoding", "accept", "connection",
            "authorization", "x-api-key"} |->
        CASE h = "user-agent"      -> "python-requests"
          [] h = "accept-encoding" -> "gzip, deflate"
          [] h = "accept"          -> "*/*"
          [] h = "connection"      -> "keep-alive"
          [] h = "authorization"   -> "Bearer access_token"
          [] OTHER                 -> "client_id"]

\* additional_headers of validate_csv and of bulk_data_insertion
additional_headers ==
    [h \in {"accept", "x-adobe-vgid"} |->
        IF h = "accept" THEN "application/json" ELSE "usage_group1"]

\* the headers argument of the reporting request
report_headers ==
    [h \in {"accept", "content-type", "x-proxy-global-company-id"} |->
        IF h = "x-proxy-global-company-id" THEN "company_id" ELSE "application/json"]

\* dict.update on the case-insensitive header mapping
HeadersUpdate(hs, more) ==
    [h \in DOMAIN hs \cup DOMAIN more |-> IF h \in DOMAIN more THEN more[h] ELSE hs[h]]

\* for header in names: headers.pop(header, None)
HeadersPop(hs, names) == [h \in DOMAIN hs \ names |-> hs[h]]

\* The export files the guard is given: rows of report-suite id and timestamp.
CsvRowValues == [reportSuiteID : {"rs1", "rs2"}, Timestamp : {0, SecondsPerDay + 5}]
RECURSIVE SeqsUpTo(_, _)
SeqsUpTo(S, n) ==
    IF n = 0 THEN {<<>>}
    ELSE LET shorter == SeqsUpTo(S, n - 1)
         IN  shorter \cup {Append(q, x) : q \in {r \in shorter : Len(r) = n - 1}, x \in S}
CsvFiles == SeqsUpTo(CsvRowValues, MaxCsvRows)

\* datetime.utcfromtimestamp(timestamp).date()
utc_date(timestamp) == timestamp \div SecondsPerDay

\* extract_rsid_and_date_range: the loop over the data rows
RECURSIVE extract_loop(_, _, _, _)
extract_loop(rows, rs, min_date, max_date) ==
    IF rows = <<>>
    THEN [raised |-> None, rsid |-> rs, min_date |-> min_date, max_date |-> max_date]
    ELSE LET row  == Head(rows)
             date == utc_date(row.Timestamp)
         IN  IF rs # None /\ rs # "" /\ row.reportSuiteID # rs
             THEN [raised |-> "ValueError"]
             ELSE extract_loop(
                    Tail(rows),
                    IF rs = None \/ rs = "" THEN row.reportSuiteID ELSE rs,
                    IF min_date = NoneNum \/ date < min_date[1]
                       THEN Some(date) ELSE min_date,
                    IF max_date = NoneNum \/ date > max_date[1]
                       THEN Some(date) ELSE max_date)

\* extract_rsid_and_date_range: None has no strftime when there is no data row
extract_rsid_and_date_range(rows) ==
    LET r == extract_loop(rows, None, NoneNum, NoneNum)
    IN  IF r.raised # None THEN r
        ELSE IF r.min_date = NoneNum THEN [raised |-> "AttributeError"]
        ELSE [raised   |-> None,
              rsid     |-> r.rsid,
              min_date |-> r.min_date[1],
              max_date |-> r.max_date[1]]

\* the threshold of the code's comment: "will be greater than 1"
ExistingDataPresentAbove1(total) == total > 1

\* summary_data["totals"][0] > 2
ExistingDataPresent(total) == total > 2

SubmitInit ==
    /\ spc = "idle"
    /\ op = None
    /\ ncalls = 0
    /\ headers = SessionHeaders
    /\ headers_before = SessionHeaders
    /\ fs_gzip = FALSE
    /\ csv_file \in CsvFiles
    /\ response = None
    /\ validation_result = None
    /\ has_existing_data = NoneNum
    /\ sent = <<>>
    /\ sresult = [kind |-> "idle"]

SubmitIdle ==
    /\ spc = "idle"
    /\ op = None
    /\ ncalls = 0
    /\ headers = SessionHeaders
    /\ headers_before = SessionHeaders
    /\ fs_gzip = FALSE
    /\ csv_file = <<>>
    /\ response = None
    /\ validation_result = None
    /\ has_existing_data = NoneNum
    /\ sent = <<>>
    /\ sresult = [kind |-> "idle"]

Operations == {"validate_csv", "is_there_existing_data_for_date_range",
               "bulk_data_insertion"}

\* an exception leaves the invoked operation, through every frame
Raise(exc) ==
    /\ spc' = "raised"
    /\ sresult' = exc

\* the caller invokes one of the operations on the session
Call ==
    /\ spc = "idle"
    /\ ncalls < MaxCalls
    /\ \E o \in Operations :
         /\ op' = o
         /\ spc' = CASE o = "validate_csv" -> "v_headers"
                     [] o = "bulk_data_insertion" -> "v_headers"
                     [] OTHER -> "e_check"
    /\ headers_before' = headers
    /\ sent' = <<>>
    /\ sresult' = [kind |-> "running"]
    /\ response' = None
    /\ validation_result' = None
    /\ has_existing_data' = NoneNum
    /\ UNCHANGED <<ncalls, headers, fs_gzip, csv_file>>
    /\ UNCHANGED <<fetchVars, exportVars, rangeVars, enrichVars>>

\* the caller has the result or the exception; the session lives on
Complete ==
    /\ spc \in {"returned", "raised"}
    /\ spc' = "idle"
    /\ ncalls' = ncalls + 1
    /\ UNCHANGED <<op, headers, headers_before, fs_gzip, csv_file, response,
                   validation_result, has_existing_data, sent, sresult>>
    /\ UNCHANGED <<fetchVars, exportVars, rangeVars, enrichVars>>

\* self.session.headers.update(additional_headers)
UpdateHeadersStep(from, to) ==
    /\ spc = from
    /\ headers' = HeadersUpdate(headers, additional_headers)
    /\ spc' = to
    /\ UNCHANGED <<op, ncalls, headers_before, fs_gzip, csv_file, response,
                   validation_result, has_existing_data, sent, sresult>>
    /\ UNCHANGED <<fetchVars, exportVars, rangeVars, enrichVars>>

\* gzip_file_path = self.gzip_file(csv_file_path): the file is written, or
\* opening the source fails, or the copy fails after the .gz was created
GzipStep(from, to) ==
    /\ spc = from
    /\ \/ /\ fs_gzip' = TRUE
          /\ spc' = to
          /\ UNCHANGED sresult
       \/ /\ UNCHANGED fs_gzip
          /\ Raise([kind |-> "OSError"])
       \/ /\ fs_gzip' = TRUE
          /\ Raise([kind |-> "OSError"])
    /\ UNCHANGED <<op, ncalls, headers, headers_before, csv_file, response,
                   validation_result, has_existing_data, sent>>
    /\ UNCHANGED <<fetchVars, exportVars, rangeVars, enrichVars>>

\* response = self.session.post(url, files=files, timeout=self.timeout): the
\* request times out, or it is answered
PostStep(endpoint, from, to) ==
    /\ spc = from
    /\ \/ /\ sent' = Append(sent, [endpoint |-> endpoint,
                                   headers  |-> headers,
                                   response |-> [timed_out |-> TRUE]])
          /\ Raise([kind |-> "Timeout"])
          /\ UNCHANGED response
       \/ \E status_code \in StatusCodes, success \in BOOLEAN :
            LET r == [status_code |-> status_code,
                      text        |-> ResponseText(status_code),
                      json        |-> [success |-> success]]
            IN  /\ status_code # 200 => success = FALSE
                /\ response' = r
                /\ sent' = Append(sent, [endpoint |-> endpoint,
                                         headers  |-> headers,
                                         response |-> r])
                /\ spc' = to
                /\ UNCHANGED sresult
    /\ UNCHANGED <<op, ncalls, headers, headers_before, fs_gzip, csv_file,
                   validation_result, has_existing_data>>
    /\ UNCHANGED <<fetchVars, exportVars, rangeVars, enrichVars>>

\* os.remove(gzip_file_path); the additional headers are popped; the status
\* check returns response.json() to `to` or raises RequestFailure
CleanupStep(from, to) ==
    /\ spc = from
    /\ fs_gzip' = FALSE
    /\ headers' = HeadersPop(headers, DOMAIN additional_headers)
    /\ IF IsSuccess(response.status_code)
       THEN /\ spc' = to
            /\ validation_result' = IF to = "b_validated" THEN response.json
                                    ELSE validation_result
            /\ sresult' = IF to = "returned"
                          THEN [kind |-> "return", value |-> response.json]
                          ELSE sresult
       ELSE /\ Raise([kind        |-> "RequestFailure",
                      status_code |-> response.status_code,
                      text        |-> response.text])
            /\ UNCHANGED validation_result
    /\ UNCHANGED <<op, ncalls, headers_before, csv_file, response,
                   has_existing_data, sent>>
    /\ UNCHANGED <<fetchVars, exportVars, rangeVars, enrichVars>>

\* validate_csv
ValidateUpdateHeaders == UpdateHeadersStep("v_headers", "v_gzip")
ValidateGzip == GzipStep("v_gzip", "v_post")
ValidatePost == PostStep("events/validate", "v_post", "v_cleanup")
ValidateCleanup ==
    CleanupStep("v_cleanup", IF op = "validate_csv" THEN "returned" ELSE "b_validated")

\* bulk_data_insertion: if not validation_result["success"]: raise
BulkCheckValidation ==
    /\ spc = "b_validated"
    /\ IF ~validation_result.success
       THEN Raise([kind |-> "RequestFailure", text |-> "CSV file validation failed"])
       ELSE /\ spc' = "e_check"
            /\ UNCHANGED sresult
    /\ UNCHANGED <<op, ncalls, headers, headers_before, fs_gzip, csv_file,
                   response, validation_result, has_existing_data, sent>>
    /\ UNCHANGED <<fetchVars, exportVars, rangeVars, enrichVars>>

\* is_there_existing_data_for_date_range, from the extraction to its return
ExistingDataCheck ==
    /\ spc = "e_check"
    /\ LET x == extract_rsid_and_date_range(csv_file) IN
       IF x.raised # None
       THEN /\ Raise([kind |-> x.raised])
            /\ UNCHANGED <<response, has_existing_data, sent>>
       ELSE LET w == inclusive_date_range(x.min_date, x.max_date)
                request == [endpoint  |-> "reports",
                            headers   |-> HeadersUpdate(headers, report_headers),
                            rsid      |-> x.rsid,
                            dateRange |-> <<strftime_iso(w.start), strftime_iso(w.end)>>]
            IN
            \/ /\ sent' = Append(sent, request @@ [response |-> [timed_out |-> TRUE]])
               /\ Raise([kind |-> "Timeout"])
               /\ UNCHANGED <<response, has_existing_data>>
            \/ \E status_code \in StatusCodes,
                  shape \in {"no summaryData", "no totals", "totals"},
                  total \in 0..MaxTotal :
                 LET r == [status_code |-> status_code,
                           text        |-> ResponseText(status_code),
                           json        |-> [shape |-> shape, total |-> total]]
                 IN  /\ (status_code # 200 \/ shape # "totals") => total = 0
                     /\ status_code # 200 => shape = "no summaryData"
                     /\ response' = r
                     /\ sent' = Append(sent, request @@ [response |-> r])
                     /\ IF ~IsSuccess(status_code)
                        THEN /\ Raise([kind        |-> "RequestFailure",
                                       status_code |-> status_code,
                                       text        |-> r.text])
                             /\ UNCHANGED has_existing_data
                        ELSE IF shape # "totals"
                        THEN /\ Raise([kind |-> "KeyError"])
                             /\ UNCHANGED has_existing_data
                        ELSE IF op = "bulk_data_insertion"
                        THEN /\ has_existing_data' = Some(ExistingDataPresent(total))
                             /\ spc' = "b_checked"
                             /\ UNCHANGED sresult
                        ELSE /\ spc' = "returned"
                             /\ sresult' = [kind  |-> "return",
                                            value |-> ExistingDataPresent(total)]
                             /\ UNCHANGED has_existing_data
    /\ UNCHANGED <<op, ncalls, headers, headers_before, fs_gzip, csv_file,
                   validation_result>>
    /\ UNCHANGED <<fetchVars, exportVars, rangeVars, enrichVars>>

\* a guard that lets the insertion proceed whatever the check returned
BulkCheckExistingIgnored ==
    /\ spc = "b_checked"
    /\ spc' = "b_headers"
    /\ UNCHANGED <<op, ncalls, headers, headers_before, fs_gzip, csv_file,
                   response, validation_result, has_existing_data, sent, sresult>>
    /\ UNCHANGED <<fetchVars, exportVars, rangeVars, enrichVars>>

\* bulk_data_insertion: if has_existing_data: raise ExistingDataError
BulkCheckExisting ==
    /\ spc = "b_checked"
    /\ IF has_existing_data[1]
       THEN Raise([kind |-> "ExistingDataError"])
       ELSE /\ spc' = "b_headers"
            /\ UNCHANGED sresult
    /\ UNCHANGED <<op, ncalls, headers, headers_before, fs_gzip, csv_file,
                   response, validation_result, has_existing_data, sent>>
    /\ UNCHANGED <<fetchVars, exportVars, rangeVars, enrichVars>>

\* bulk_data_insertion: the ingestion
BulkUpdateHeaders == UpdateHeadersStep("b_headers", "b_gzip")
BulkGzip == GzipStep("b_gzip", "b_post")
BulkPost == PostStep("events", "b_post", "b_cleanup")
BulkCleanup == CleanupStep("b_cleanup", "returned")

(***************************************************************************)
(* write_to_csv_for_bulk_import                                            *)
(*                                                                         *)
(* A text whose characters matter (a login) is a sequence of one-character *)
(* strings; JSON null and an unbound local are the one-element sequences   *)
(* Null and Unbound, which no text equals.                                 *)
(***************************************************************************)
Null == <<"null">>
Unbound == <<"unbound">>
Unknown == <<"u", "n", "k", "n", "o", "w", "n">>

\* the logins of the records: two addresses and null
Logins == {<<"a", "@", "x">>, <<"b", "c", "@", "y">>, Null}

\* the creation timestamps of the records, as ISO strings
DatesCreated == {[date |-> 3, time |-> 7]}

\* The records a JSON file can hold: enriched audit records, with or
\* without the dateCreated key.
FullRecords ==
    [eventType        : {"Login failed"},
     eventDescription : {"Name=Foo Id=abc"},
     dateCreated      : DatesCreated,
     login            : Logins,
     event            : {"event31"}]
WithoutDateCreated ==
    [eventType        : {"Login failed"},
     eventDescription : {"Name=Foo Id=abc"},
     login            : Logins,
     event            : {"event31"}]
\* records lacking one of the other keys the loop body reads
WithoutEventType ==
    [eventDescription : {"Name=Foo Id=abc"},
     dateCreated      : DatesCreated,
     login            : {<<"a", "@", "x">>},
     event            : {"event31"}]
WithoutEventDescription ==
    [eventType        : {"Login failed"},
     dateCreated      : DatesCreated,
     login            : {<<"a", "@", "x">>},
     event            : {"event31"}]
WithoutLogin ==
    [eventType        : {"Login failed"},
     eventDescription : {"Name=Foo Id=abc"},
     dateCreated      : DatesCreated,
     event            : {"event31"}]
WithoutEvent ==
    [eventType        : {"Login failed"},
     eventDescription : {"Name=Foo Id=abc"},
     dateCreated      : DatesCreated,
     login            : {<<"a", "@", "x">>, Null}]
Records ==
    FullRecords \cup WithoutDateCreated \cup WithoutEventType
        \cup WithoutEventDescription \cup WithoutLogin \cup WithoutEvent
JsonFiles == SeqsUpTo(Records, MaxRecords)

ReportSuiteIds == {"rs1"}

\* login.split("@")[0]: the text before the first "@", all of it without one
RECURSIVE split_at_0(_)
split_at_0(text) ==
    IF text = <<>> \/ Head(text) = "@" THEN <<>>
    ELSE <<Head(text)>> \o split_at_0(Tail(text))

\* the local time zones a process can run in: UTC and UTC+1
LocalOffsets == {0, 3600}

\* int(datetime.fromisoformat(log["dateCreated"]).timestamp()): the string
\* carries no offset, so timestamp() reads it as local time
timestamp_of(dateCreated) ==
    dateCreated.date * SecondsPerDay + dateCreated.time - utcoffset

\* log.get(key, "")
get_or_empty(log, key) == IF key \in DOMAIN log THEN log[key] ELSE ""

\* The keys the loop body reads with log[...], in the order it reads them.
required_keys == <<"eventType", "eventDescription", "dateCreated", "login", "event">>

\* the first key of required_keys the record lacks in the order the body
\* reads them up to the login test, or None
first_missing(log, keys) ==
    LET missing == {k \in DOMAIN keys : keys[k] \notin DOMAIN log}
    IN  IF missing = {} THEN None
        ELSE keys[CHOOSE k \in missing : \A m \in missing : k <= m]

ExportInit ==
    /\ wpc = "open"
    /\ json_data \in JsonFiles
    /\ rsid \in ReportSuiteIds
    /\ log_index = 0
    /\ login = Unbound
    /\ csv_rows = <<>>
    /\ wresult = [kind |-> "running"]
    /\ utcoffset \in LocalOffsets
    /\ extracted = [kind |-> "none"]

ExportIdle ==
    /\ wpc = "idle"
    /\ json_data = <<>>
    /\ rsid = "rs1"
    /\ log_index = 0
    /\ login = Unbound
    /\ csv_rows = <<>>
    /\ wresult = [kind |-> "idle"]
    /\ utcoffset = 0
    /\ extracted = [kind |-> "none"]

header_row == <<"reportSuiteID", "Timestamp", "marketingCloudVisitorID", "pageName",
                "userAgent", "eVar1", "eVar2", "eVar3", "eVar4", "eVar5", "eVar6",
                "eVar7", "events">>

\* both files are opened, the header row is written, the JSON is loaded
WriteHeader ==
    /\ wpc = "open"
    /\ csv_rows' = <<header_row>>
    /\ log_index' = 1
    /\ wpc' = "for_log"
    /\ UNCHANGED <<json_data, rsid, login, wresult, utcoffset, extracted>>
    /\ UNCHANGED <<fetchVars, submitVars, rangeVars, enrichVars>>

\* the local `login` after the if/else of the loop body: only the else
\* branch assigns it
login_after(log) ==
    IF log.login = Null THEN login ELSE split_at_0(log.login)

\* marketing_cloud_visitor_id of the loop body
visitor_id(log) ==
    IF log.login = Null THEN Unknown ELSE split_at_0(log.login)

\* the row the loop body writes for `log`, its local login being `lg`
row_of(log, lg) ==
    LET event_desc_full == <<log.eventType, ";", log.eventDescription>>
    IN  [reportSuiteID           |-> rsid,
         Timestamp               |-> timestamp_of(log.dateCreated),
         marketingCloudVisitorID |-> visitor_id(log),
         pageName                |-> event_desc_full,
         userAgent               |-> "filler_user_agent",
         eVar1                   |-> lg,
         eVar2                   |-> event_desc_full,
         eVar3                   |-> log.eventType,
         eVar4                   |-> log.eventDescription,
         eVar5                   |-> get_or_empty(log, "componentId"),
         eVar6                   |-> get_or_empty(log, "componentName"),
         eVar7                   |-> get_or_empty(log, "componentOwner"),
         events                  |-> log.event]

\* an iteration that passes over a record lacking a key the body reads and
\* goes on with the next record (a per-row skip)
WriteRowSkipping ==
    /\ wpc = "for_log"
    /\ log_index <= Len(json_data)
    /\ LET log == json_data[log_index]
           lg  == IF first_missing(log, required_keys) = None
                  THEN login_after(log) ELSE login
       IN  IF first_missing(log, required_keys) # None
           THEN /\ log_index' = log_index + 1
                /\ UNCHANGED <<login, csv_rows, wpc, wresult>>
           ELSE IF lg = Unbound
           THEN /\ wpc' = "raised"
                /\ wresult' = [kind |-> "UnboundLocalError", key |-> "login",
                               index |-> log_index]
                /\ UNCHANGED <<login, csv_rows, log_index>>
           ELSE /\ csv_rows' = Append(csv_rows, row_of(log, lg))
                /\ login' = lg
                /\ log_index' = log_index + 1
                /\ UNCHANGED <<wpc, wresult>>
    /\ UNCHANGED <<json_data, rsid, utcoffset, extracted>>
    /\ UNCHANGED <<fetchVars, submitVars, rangeVars, enrichVars>>

\* one iteration of `for log in json.load(json_file)`: a row is written, or
\* the first failing statement raises and ends the export
WriteRow ==
    /\ wpc = "for_log"
    /\ log_index <= Len(json_data)
    /\ LET log == json_data[log_index]
           \* the keys read before the local login is used, then after it
           early == first_missing(log, SubSeq(required_keys, 1, 4))
           lg    == IF early = None THEN login_after(log) ELSE login
       IN  IF early # None
           THEN /\ wpc' = "raised"
                /\ wresult' = [kind |-> "KeyError", key |-> early, index |-> log_index]
                /\ UNCHANGED <<login, csv_rows, log_index>>
           ELSE IF lg = Unbound
           THEN /\ wpc' = "raised"
                /\ wresult' = [kind |-> "UnboundLocalError", key |-> "login",
                               index |-> log_index]
                /\ UNCHANGED <<login, csv_rows, log_index>>
           ELSE IF "event" \notin DOMAIN log
           THEN /\ wpc' = "raised"
                /\ wresult' = [kind |-> "KeyError", key |-> "event", index |-> log_index]
                /\ login' = lg
                /\ UNCHANGED <<csv_rows, log_index>>
           ELSE /\ csv_rows' = Append(csv_rows, row_of(log, lg))
                /\ login' = lg
                /\ log_index' = log_index + 1
                /\ UNCHANGED <<wpc, wresult>>
    /\ UNCHANGED <<json_data, rsid, utcoffset, extracted>>
    /\ UNCHANGED <<fetchVars, submitVars, rangeVars, enrichVars>>

\* the records are exhausted: the files are closed and the call returns
WriteReturn ==
    /\ wpc = "for_log"
    /\ log_index > Len(json_data)
    /\ wpc' = "returned"
    /\ wresult' = [kind |-> "return"]
    /\ UNCHANGED <<json_data, rsid, log_index, login, csv_rows, utcoffset,
                   extracted>>
    /\ UNCHANGED <<fetchVars, submitVars, rangeVars, enrichVars>>

(***************************************************************************)
(* The export followed by extract_rsid_and_date_range on the written file  *)
(***************************************************************************)
\* creation timestamps on two days, half an hour after midnight and at noon
DatesCreatedOnTwoDays == [date : {3, 4}, time : {1800, 43200}]

\* enriched records that differ in their creation timestamp
DatedRecords ==
    [eventType        : {"Login failed"},
     eventDescription : {"Name=Foo Id=abc"},
     dateCreated      : DatesCreatedOnTwoDays,
     login            : {<<"a", "@", "x">>},
     event            : {"event31"}]

RoundTripInit ==
    /\ wpc = "open"
    /\ json_data \in SeqsUpTo(DatedRecords, MaxDated)
    /\ rsid \in {"rs1", "rs2"}
    /\ log_index = 0
    /\ login = Unbound
    /\ csv_rows = <<>>
    /\ wresult = [kind |-> "running"]
    /\ utcoffset \in LocalOffsets
    /\ extracted = [kind |-> "none"]

\* extract_rsid_and_date_range(csv_file_path) on the file the export wrote:
\* next(reader) skips the header row
ExtractWritten ==
    /\ wpc = "returned"
    /\ extracted.kind = "none"
    /\ extracted' = [kind |-> "done",
                     result |-> extract_rsid_and_date_range(Tail(csv_rows))]
    /\ UNCHANGED <<wpc, json_data, rsid, log_index, login, csv_rows, wresult,
                   utcoffset>>
    /\ UNCHANGED <<fetchVars, submitVars, rangeVars, enrichVars>>

(***************************************************************************)
(* The enrichment steps: update_event_types, add_component_info and        *)
(* add_adobe_events.  Each call loads the file, rewrites the records and   *)
(* writes the file back.                                                   *)
(*                                                                         *)
(* A text is a sequence of pieces: single characters where the characters  *)
(* matter (digits, signs, blanks) and whole words or literals elsewhere.   *)
(***************************************************************************)

\* event.get(key): the value, or None (which is also what JSON null loads as)
get(event, key) == IF key \in DOMAIN event THEN event[key] ELSE JsonNull

\* event[key] = value
set(event, key, value) ==
    [k \in DOMAIN event \cup {key} |-> IF k = key THEN value ELSE event[k]]

Digits == <<"0", "1", "2", "3", "4", "5", "6", "7", "8", "9">>
DigitValue(c) == (CHOOSE i \in DOMAIN Digits : Digits[i] = c) - 1
IsDigit(c) == \E i \in DOMAIN Digits : Digits[i] = c

\* text.strip(): leading and trailing blanks removed
RECURSIVE lstrip(_)
lstrip(t) == IF t # <<>> /\ Head(t) = " " THEN lstrip(Tail(t)) ELSE t
RECURSIVE rstrip(_)
rstrip(t) ==
    IF t # <<>> /\ t[Len(t)] = " " THEN rstrip(SubSeq(t, 1, Len(t) - 1)) ELSE t
strip(t) == rstrip(lstrip(t))

\* the number a sequence of digits denotes
RECURSIVE digits_value(_)
digits_value(t) ==
    IF t = <<>> THEN 0
    ELSE 10 * digits_value(SubSeq(t, 1, Len(t) - 1)) + DigitValue(t[Len(t)])

\* int(text): blanks around the numeral and a sign are accepted, anything
\* else than digits raises ValueError
int_of_str(text) ==
    LET t      == strip(text)
        signed == t # <<>> /\ Head(t) \in {"-", "+"}
        ds     == IF signed THEN Tail(t) ELSE t
    IN  IF ds = <<>> \/ \E i \in DOMAIN ds : ~IsDigit(ds[i])
        THEN [raised |-> "ValueError"]
        ELSE [raised |-> None,
              value  |-> IntVal(IF signed /\ Head(t) = "-"
                                THEN 0 - digits_value(ds) ELSE digits_value(ds))]

\* str(n) of an integer: its decimal numeral
RECURSIVE str_of_nat(_)
str_of_nat(n) ==
    IF n < 10 THEN <<Digits[n + 1]>>
    ELSE str_of_nat(n \div 10) \o <<Digits[(n % 10) + 1]>>
str_of_int(n) == IF n < 0 THEN <<"-">> \o str_of_nat(0 - n) ELSE str_of_nat(n)

\* str(event_type_int): of an integer or of None
str_of(v) == IF v.type = "null" THEN <<"None">> ELSE str_of_int(v.num)

\* int(event_type) if isinstance(event_type, (str, int)) else None; bool is
\* a subclass of int
event_type_int_of(event_type) ==
    CASE event_type.type = "str"  -> int_of_str(event_type.text)
      [] event_type.type = "int"  -> [raised |-> None, value |-> event_type]
      [] event_type.type = "bool" ->
            [raised |-> None, value |-> IntVal(IF event_type.bool THEN 1 ELSE 0)]
      [] OTHER                    -> [raised |-> None, value |-> JsonNull]

event_types_dict ==
    [n \in (0..28) \cup {30, 31, 32, 41, 42, 61} |->
        CASE n = 0  -> "No Category"
          [] n = 1  -> "Login failed"
          [] n = 2  -> "Login successful"
          [] n = 3  -> "Admin Action"
          [] n = 4  -> "Security setting change"
          [] n = 5  -> "Report viewed"
          [] n = 6  -> "Report downloaded"
          [] n = 7  -> "Alert sent"
          [] n = 8  -> "User Action"
          [] n = 9  -> "Tool viewed"
          [] n = 10 -> "Adobe Action"
          [] n = 11 -> "Password Recovery"
          [] n = 12 -> "BookMarks"
          [] n = 13 -> "Dashboards"
          [] n = 14 -> "Alerts"
          [] n = 15 -> "Calendar Events"
          [] n = 16 -> "Targets"
          [] n = 17 -> "Report Settings"
          [] n = 18 -> "Scheduled Reports"
          [] n = 19 -> "Exclude By IP"
          [] n = 20 -> "Name Pages"
          [] n = 21 -> "Classifications"
          [] n = 22 -> "Data Sources"
          [] n = 23 -> "Workspace Project"
          [] n = 24 -> "Segment"
          [] n = 25 -> "Calculated Metric"
          [] n = 26 -> "Date Range"
          [] n = 27 -> "Virtual Report Suite"
          [] n = 28 -> "Contribution Analysis"
          [] n = 30 -> "Excel Data Block Request"
          [] n = 31 -> "Excel Login Failure"
          [] n = 32 -> "Excel Login Success"
          [] n = 41 -> "Mobile Login Failure"
          [] n = 42 -> "Mobile Login Success"
          [] OTHER  -> "Api Method"]

\* an unknown code gets the sentinel label, without the code
decoded_dropping_code(event, event_type_int) ==
    IF event_type_int.type = "int" /\ event_type_int.num \in DOMAIN event_types_dict
    THEN set(event, "eventType", StrVal(<<event_types_dict[event_type_int.num]>>))
    ELSE set(event, "eventType", StrVal(<<"Unknown Event Type">>))

\* the body of the try for one event, given that int() did not raise
decoded(event, event_type_int) ==
    IF event_type_int.type = "int" /\ event_type_int.num \in DOMAIN event_types_dict
    THEN set(event, "eventType", StrVal(<<event_types_dict[event_type_int.num]>>))
    ELSE set(event, "eventType",
             StrVal(<<"Unknown Event Type: ">> \o str_of(event_type_int)))

\* a handler that does not catch: the error of one event ends the call
update_event_raising(event) ==
    LET event_type == get(event, "eventType")
    IN  IF event_type.type = "null"
        THEN [raised |-> None,
              event  |-> set(event, "eventType", StrVal(<<"Unknown Event Type">>))]
        ELSE LET r == event_type_int_of(event_type)
             IN  IF r.raised # None THEN [raised |-> r.raised]
                 ELSE [raised |-> None, event |-> decoded(event, r.value)]

\* a handler that labels what int() rejects: the text is kept behind
\* "Unknown Event Type: "
update_event_relabelling(event) ==
    LET event_type == get(event, "eventType")
    IN  IF event_type.type = "null"
        THEN [raised |-> None,
              event  |-> set(event, "eventType", StrVal(<<"Unknown Event Type">>))]
        ELSE LET r == event_type_int_of(event_type)
             IN  IF r.raised # None
                 THEN [raised |-> None,
                       event  |-> set(event, "eventType",
                                      StrVal(<<"Unknown Event Type: ">>
                                                 \o event_type.text))]
                 ELSE [raised |-> None, event |-> decoded(event, r.value)]

\* one iteration of the loop over the events: try and except ValueError
update_event(event) ==
    LET event_type == get(event, "eventType")
    IN  IF event_type.type = "null"
        THEN [raised |-> None,
              event  |-> set(event, "eventType", StrVal(<<"Unknown Event Type">>))]
        ELSE LET r == event_type_int_of(event_type)
             IN  IF r.raised # None THEN [raised |-> None, event |-> event]
                 ELSE [raised |-> None, event |-> decoded(event, r.value)]

\* the loop over json_data: the events rewritten in place, or the first
\* error that escapes an iteration
RECURSIVE update_events(_)
update_events(data) ==
    IF data = <<>> THEN [raised |-> None, data |-> <<>>]
    ELSE LET first == update_event(Head(data))
             rest  == update_events(Tail(data))
         IN  IF first.raised # None THEN [raised |-> first.raised]
             ELSE IF rest.raised # None THEN rest
             ELSE [raised |-> None, data |-> <<first.event>> \o rest.data]

(***************************************************************************)
(* add_component_info.  In a description the pieces "Name=", "Id=" and     *)
(* "Owner=" are the literals of the pattern, " " is a whitespace           *)
(* character, and every other piece is a run of non-whitespace characters  *)
(* or a phrase that stands before the component's name.                    *)
(***************************************************************************)
\* the positions q at which \sId=\S+ can follow a name that starts after p
IdPositions(t, p) ==
    {q \in (p + 1)..(Len(t) - 2) : t[q] = " " /\ t[q + 1] = "Id=" /\ t[q + 2] # " "}

\* the end of the run of non-whitespace pieces that starts at position i
RECURSIVE run_end(_, _)
run_end(t, i) == IF i < Len(t) /\ t[i + 1] # " " THEN run_end(t, i + 1) ELSE i

\* regex.search(event_description) for the pattern
\* Name=(?P<name>.*?)\sId=(?P<id>\S+)(?:\sOwner=(?P<owner>.*))?
\* the leftmost "Name=", the shortest name, the longest id, the owner when
\* " Owner=" follows the id
regex_search(t) ==
    LET starts == {p \in DOMAIN t : t[p] = "Name=" /\ IdPositions(t, p) # {}}
    IN  IF starts = {} THEN [matched |-> FALSE]
        ELSE LET p == CHOOSE x \in starts : \A y \in starts : x <= y
                 q == CHOOSE x \in IdPositions(t, p) :
                          \A y \in IdPositions(t, p) : x <= y
                 e == run_end(t, q + 2)
                 has_owner == e + 2 <= Len(t) /\ t[e + 1] = " " /\ t[e + 2] = "Owner="
             IN  [matched |-> TRUE,
                  name    |-> SubSeq(t, p + 1, q - 1),
                  id      |-> SubSeq(t, q + 2, e),
                  owner   |-> IF has_owner
                              THEN StrVal(SubSeq(t, e + 3, Len(t)))
                              ELSE JsonNull]

\* the owner left out when the description names none
with_component_no_default(item, match) ==
    LET named == set(set(item, "componentName", StrVal(strip(match.name))),
                     "componentId", StrVal(strip(match.id)))
    IN  IF match.owner.type = "str" /\ match.owner.text # <<>>
        THEN set(named, "componentOwner", StrVal(strip(match.owner.text)))
        ELSE named

\* the three assignments made for a match
with_component(item, match) ==
    set(set(set(item, "componentName", StrVal(strip(match.name))),
            "componentId", StrVal(strip(match.id))),
        "componentOwner",
        IF match.owner.type = "str" /\ match.owner.text # <<>>
        THEN StrVal(strip(match.owner.text))
        ELSE StrVal(<<"N/A">>))

\* one iteration of the loop over the items; re.search accepts strings only
add_component(item) ==
    LET event_description ==
            IF "eventDescription" \in DOMAIN item
            THEN item.eventDescription ELSE StrVal(<<>>)
    IN  IF event_description.type # "str" THEN [raised |-> "TypeError"]
        ELSE LET match == regex_search(event_description.text)
             IN  [raised |-> None,
                  event  |-> IF match.matched THEN with_component(item, match)
                             ELSE item]

RECURSIVE add_components(_)
add_components(data) ==
    IF data = <<>> THEN [raised |-> None, data |-> <<>>]
    ELSE LET first == add_component(Head(data))
             rest  == add_components(Tail(data))
         IN  IF first.raised # None THEN [raised |-> first.raised]
             ELSE IF rest.raised # None THEN rest
             ELSE [raised |-> None, data |-> <<first.event>> \o rest.data]

(***************************************************************************)
(* add_adobe_events                                                        *)
(***************************************************************************)
\* event_name_dict, in the order of its items
event_name_dict ==
    << <<"event1", "project created">>, <<"event2", "project viewed">>,
       <<"event3", "project updated">>, <<"event4", "project deleted">>,
       <<"event5", "sharing project">>, <<"event6", "segment created">>,
       <<"event7", "segment updated">>, <<"event8", "segment deleted">>,
       <<"event9", "sharing segment">>,
       <<"event10", "calculated metric created">>,
       <<"event11", "calculated metric updated">>,
       <<"event12", "calculated metric deleted">>,
       <<"event13", "sharing calculated metric">>,
       <<"event14", "date range created">>, <<"event15", "date range updated">>,
       <<"event16", "date range deleted">>, <<"event17", "sharing date range">>,
       <<"event18", "virtual report suite created">>,
       <<"event19", "virtual report suite updated">>,
       <<"event20", "virtual report suite deleted">>,
       <<"event21", "alert created">>, <<"event22", "alert updated">>,
       <<"event23", "alert deleted">>, <<"event24", "sharing alert">>,
       <<"event25", "delivered alert">>, <<"event26", "classification">>,
       <<"event27", "viewed permissions">>, <<"event28", "viewed company">>,
       <<"event29", "viewed logs">>, <<"event30", "successful login">>,
       <<"event31", "login failed">>, <<"event32", "api operation">> >>

\* piece.lower() for the pieces that hold capitals of a phrase; the other
\* pieces of the descriptions hold no phrase of the table
lower(piece) ==
    CASE piece = "Segment Created" -> "segment created"
      [] piece = "Segment Updated" -> "segment updated"
      [] piece = "Sharing Segment" -> "sharing segment"
      [] piece = "Login Failed"    -> "login failed"
      [] piece = "Login failed"    -> "login failed"
      [] OTHER                     -> piece

\* event_value.lower() in event_description
contains(t, phrase) == \E i \in DOMAIN t : lower(t[i]) = lower(phrase)

\* the first key of the table whose phrase the description holds, or ""
first_event(t) ==
    LET hits == {k \in DOMAIN event_name_dict : contains(t, event_name_dict[k][2])}
    IN  IF hits = {} THEN ""
        ELSE event_name_dict[CHOOSE k \in hits : \A h \in hits : k <= h][1]

\* the phrases are looked for in the event type, not in the description
add_adobe_event_by_type(entry) ==
    IF "eventDescription" \notin DOMAIN entry THEN [raised |-> "KeyError"]
    ELSE IF entry.eventDescription.type # "str" THEN [raised |-> "AttributeError"]
    ELSE LET t == get(entry, "eventType")
         IN  [raised |-> None,
              event  |-> set(entry, "event",
                             StrVal(<<IF t.type = "str" THEN first_event(t.text)
                                      ELSE "">>))]

\* one iteration of the loop over the entries
add_adobe_event(entry) ==
    IF "eventDescription" \notin DOMAIN entry THEN [raised |-> "KeyError"]
    ELSE IF entry.eventDescription.type # "str" THEN [raised |-> "AttributeError"]
    ELSE [raised |-> None,
          event  |-> set(entry, "event",
                         StrVal(<<first_event(entry.eventDescription.text)>>))]

RECURSIVE add_events(_)
add_events(data) ==
    IF data = <<>> THEN [raised |-> None, data |-> <<>>]
    ELSE LET first == add_adobe_event(Head(data))
             rest  == add_events(Tail(data))
         IN  IF first.raised # None THEN [raised |-> first.raised]
             ELSE IF rest.raised # None THEN rest
             ELSE [raised |-> None, data |-> <<first.event>> \o rest.data]

(***************************************************************************)
(* The files the enrichment steps are given, and the calls                 *)
(***************************************************************************)
\* event types as the server or a file can give them: numerals, a padded
\* numeral, a word, integers, a float, a boolean and null
EventTypeValues ==
    {StrVal(<<"0">>), StrVal(<<"6", "1">>), StrVal(<<"9", "9", "9", "9">>),
     StrVal(<<"0", "2", "9">>), StrVal(<<"a", "b", "c">>),
     IntVal(1), IntVal(29), FloatVal(1, 5), BoolVal(TRUE), JsonNull}

DescriptionWithOwner ==
    <<"Segment Created", ":", " ", "Name=", "Foo", " ", "Bar", " ", "Id=", "s1",
      " ", "Owner=", "Jane", " ", "Smith">>
DescriptionWithoutOwner ==
    <<"Segment Updated", ":", " ", "Name=", "Foo", " ", "Id=", "s2">>
DescriptionWithEmptyOwner ==
    <<"Sharing Segment", " ", "Segment Created", " ", "Name=", " ", "Id=", "s3",
      " ", "Owner=">>
DescriptionWithoutId == <<"Name=", "Foo", " ", "Id=">>
DescriptionOfLogin == <<"Login Failed", " ", "for", " ", "user">>

DescriptionValues ==
    {StrVal(DescriptionWithOwner), StrVal(DescriptionWithoutOwner),
     StrVal(DescriptionWithEmptyOwner), StrVal(DescriptionWithoutId),
     StrVal(DescriptionOfLogin), JsonNull}

\* records that differ in the event type, with and without the key, and
\* records that differ in the description, with and without the key
EnrichRecords ==
    [eventType : EventTypeValues, eventDescription : {StrVal(DescriptionWithoutOwner)}]
        \cup [eventDescription : {StrVal(DescriptionWithoutOwner)}]
        \cup [eventType : {IntVal(1)}, eventDescription : DescriptionValues]
        \cup [eventType : {IntVal(1)}]

EnrichInit ==
    /\ epc = "ready"
    /\ json_file \in SeqsUpTo(EnrichRecords, MaxEvents)
    /\ json_file_before = json_file
    /\ applied = <<>>
    /\ eresult = [kind |-> "none"]

EnrichIdle ==
    /\ epc = "idle"
    /\ json_file = <<>>
    /\ json_file_before = <<>>
    /\ applied = <<>>
    /\ eresult = [kind |-> "idle"]

\* a call of one enrichment step, each step being called once on a file: the
\* file is loaded, the loop runs over the records, and the file is written
\* back unless the loop raised
EnrichCall(name, outcome) ==
    /\ epc = "ready"
    /\ \A n \in DOMAIN applied : applied[n] # name
    /\ applied' = Append(applied, name)
    /\ IF outcome.raised # None
       THEN /\ epc' = "raised"
            /\ eresult' = [kind |-> outcome.raised]
            /\ UNCHANGED json_file
       ELSE /\ json_file' = outcome.data
            /\ eresult' = [kind |-> "return"]
            /\ UNCHANGED epc
    /\ UNCHANGED json_file_before
    /\ UNCHANGED <<fetchVars, submitVars, exportVars, rangeVars>>

UpdateEventTypes == EnrichCall("update_event_types", update_events(json_file))

AddComponentInfo == EnrichCall("add_component_info", add_components(json_file))

AddAdobeEvents == EnrichCall("add_adobe_events", add_events(json_file))

\* the number of calls of a step on the file so far
Calls(name) == Cardinality({n \in DOMAIN applied : applied[n] = name})

\* update_event_types called once more on a file it has already rewritten,
\* directly after its first call or after other steps: the file is loaded,
\* the loop runs over the records, and the file is written back unless the
\* loop raised
UpdateEventTypesAgain ==
    /\ epc = "ready"
    /\ Calls("update_event_types") = 1
    /\ applied' = Append(applied, "update_event_types")
    /\ LET outcome == update_events(json_file)
       IN  IF outcome.raised # None
           THEN /\ epc' = "raised"
                /\ eresult' = [kind |-> outcome.raised]
                /\ UNCHANGED json_file
           ELSE /\ json_file' = outcome.data
                /\ eresult' = [kind |-> "return"]
                /\ UNCHANGED epc
    /\ UNCHANGED json_file_before
    /\ UNCHANGED <<fetchVars, submitVars, exportVars, rangeVars>>

(***************************************************************************)
(* The specifications: one per component, the other components idle.       *)
(***************************************************************************)
InitFetch == FetchInit /\ SubmitIdle /\ ExportIdle /\ RangeIdle /\ EnrichIdle

NextFetch == FetchWindow \/ FetchReturn \/ FetchPage \/ FetchAdvance

SpecFetch == InitFetch /\ [][NextFetch]_vars

\* the invocation keeps running: a step that the code can take is taken
\* (every step moves the position or sends a request)
\* The ranges end on every 45th day and around the length of a sub-window.
LiveEndDays ==
    {d \in 0..MaxDay : d % 45 = 0} \cup {1, ChunkDays, ChunkDays + 1, ChunkDays + 2}

InitFetchLive == InitFetch /\ end_date \in LiveEndDays

SpecFetchLive ==
    InitFetchLive /\ [][NextFetch]_vars /\ WF_<<fpc, exchanges>>(NextFetch)

InitFetchFiltered ==
    FetchFilteredInit /\ SubmitIdle /\ ExportIdle /\ RangeIdle /\ EnrichIdle

SpecFetchFiltered == InitFetchFiltered /\ [][NextFetch]_vars

InitSubmit == SubmitInit /\ FetchIdle /\ ExportIdle /\ RangeIdle /\ EnrichIdle

NextSubmit ==
    \/ Call
    \/ Complete
    \/ ValidateUpdateHeaders
    \/ ValidateGzip
    \/ ValidatePost
    \/ ValidateCleanup
    \/ BulkCheckValidation
    \/ ExistingDataCheck
    \/ BulkCheckExisting
    \/ BulkUpdateHeaders
    \/ BulkGzip
    \/ BulkPost
    \/ BulkCleanup

SpecSubmit == InitSubmit /\ [][NextSubmit]_vars

InitExport == ExportInit /\ FetchIdle /\ SubmitIdle /\ RangeIdle /\ EnrichIdle

NextExport == WriteHeader \/ WriteRow \/ WriteReturn

SpecExport == InitExport /\ [][NextExport]_vars

InitRange == RangeInit /\ FetchIdle /\ SubmitIdle /\ ExportIdle /\ EnrichIdle

NextRange == RangeCall

SpecRange == InitRange /\ [][NextRange]_vars

InitEnrich == EnrichInit /\ FetchIdle /\ SubmitIdle /\ ExportIdle /\ RangeIdle

NextEnrich == UpdateEventTypes \/ AddComponentInfo \/ AddAdobeEvents

SpecEnrich == InitEnrich /\ [][NextEnrich]_vars

\* the enrichment steps with a second call of update_event_types
InitEnrichAgain == InitEnrich

NextEnrichAgain ==
    UpdateEventTypes \/ AddComponentInfo \/ AddAdobeEvents \/ UpdateEventTypesAgain

SpecEnrichAgain == InitEnrichAgain /\ [][NextEnrichAgain]_vars

InitRoundTrip == RoundTripInit /\ FetchIdle /\ SubmitIdle /\ RangeIdle /\ EnrichIdle

NextRoundTrip == WriteHeader \/ WriteRow \/ WriteReturn \/ ExtractWritten

SpecRoundTrip == InitRoundTrip /\ [][NextRoundTrip]_vars

(***************************************************************************)
(* Claims about get_usage_audit_logs                                       *)
(***************************************************************************)
Range(seq) == {seq[i] : i \in DOMAIN seq}

\* seconds since the midnight of day 0 of a "%Y-%m-%dT%H:%M:%S" string
IsoSeconds(iso) == iso.date * SecondsPerDay + iso.time

\* the sub-windows in the order requested: the parameters of the page-0 requests
IsFirstPage(x) == x.params.page = 0
WindowSeq == SelectSeq(exchanges, IsFirstPage)

\* the number of sub-windows whose days startDate..endDate include day d
WindowsCovering(d) ==
    Cardinality({i \in DOMAIN WindowSeq :
                    /\ WindowSeq[i].params.startDate.date <= d
                    /\ d <= WindowSeq[i].params.endDate.date})

RECURSIVE Flatten(_)
Flatten(seqs) == IF seqs = <<>> THEN <<>> ELSE Head(seqs) \o Flatten(Tail(seqs))

\* the page contents of the responses, in the order received
Contents == [i \in DOMAIN exchanges |-> exchanges[i].response.content]

\* C2: when get_usage_audit_logs returns for a range with start <= end, the
\* sub-windows it requested are consecutive (each starts the day after the
\* one before ends) and every day start..end lies in exactly one of them;
\* with start = end there is exactly one sub-window.
C2_WindowsCoverRangeOnce ==
    (fpc = "returned" /\ start_date <= end_date) =>
        /\ \A d \in start_date..end_date : WindowsCovering(d) = 1
        /\ \A i \in DOMAIN WindowSeq : i > 1 =>
              WindowSeq[i].params.startDate.date
                  = WindowSeq[i-1].params.endDate.date + 1
        /\ start_date = end_date => Len(WindowSeq) = 1

C6_PageFailureAborts ==
    \A i \in DOMAIN exchanges :
        exchanges[i].response.status_code # 200 =>
            /\ i = Len(exchanges)
            /\ fpc = "raised"
            /\ fresult = [kind        |-> "RequestFailure",
                          status_code |-> exchanges[i].response.status_code,
                          text        |-> exchanges[i].response.text]

\* a page request failed after earlier pages had delivered records
C6_Witness ==
    /\ fpc = "raised"
    /\ Len(exchanges) >= 2
    /\ all_data # <<>>
    /\ exchanges[Len(exchanges)].response.status_code # 200

\* C7: the page index of a request is 0 for the first request of a
\* sub-window and the previous index plus 1 otherwise; a sub-window is left
\* exactly after the first response reporting lastPage; the collected and
\* the returned records are the page contents concatenated in the order
\* received.
C7_PagesInOrderAndConcatenated ==
    /\ \A i \in DOMAIN exchanges :
          LET x == exchanges[i] IN
          IF i = 1
          THEN x.params.page = 0
          ELSE LET prev == exchanges[i-1] IN
               /\ prev.response.status_code = 200
               /\ IF prev.response.lastPage
                  THEN /\ x.params.startDate # prev.params.startDate
                       /\ x.params.page = 0
                  ELSE /\ x.params.startDate = prev.params.startDate
                       /\ x.params.endDate = prev.params.endDate
                       /\ x.params.page = prev.params.page + 1
    /\ fpc \in {"while_window", "while_page", "returned"} =>
          all_data = Flatten(Contents)
    /\ fpc = "returned" =>
          /\ fresult = [kind |-> "return", value |-> Flatten(Contents)]
          /\ exchanges # <<>> => exchanges[Len(exchanges)].response.lastPage

\* a fetch over two sub-windows, one of them with two pages, has returned
\* at least three records
C7_Witness ==
    /\ fpc = "returned"
    /\ Len(fresult.value) >= 3
    /\ Len(WindowSeq) >= 2
    /\ \E x \in Range(exchanges) : x.params.page = 1

(***************************************************************************)
(* Claims about the submission guard and the submitter                     *)
(***************************************************************************)
\* the request got a response (it did not time out)
Answered(x) == "status_code" \in DOMAIN x.response

\* the invoked operation has finished: it returned or it raised
Finished == spc \in {"returned", "raised"}

\* C1: in bulk_data_insertion the ingestion request is the third request of
\* the invocation, after a validation request answered 200 with success
\* true and then a reporting request answered 200 for which the check
\* returned false; once the check has returned true no ingestion request is
\* sent and the invocation ends with ExistingDataError, not RequestFailure.
C1_IngestionOnlyAfterBothChecks ==
    op = "bulk_data_insertion" =>
        /\ \A i \in DOMAIN sent : sent[i].endpoint = "events" =>
              /\ i = 3
              /\ sent[1].endpoint = "events/validate"
              /\ Answered(sent[1])
              /\ sent[1].response.status_code = 200
              /\ sent[1].response.json.success
              /\ sent[2].endpoint = "reports"
              /\ Answered(sent[2])
              /\ sent[2].response.status_code = 200
              /\ has_existing_data = Some(FALSE)
        /\ has_existing_data = Some(TRUE) =>
              /\ \A i \in DOMAIN sent : sent[i].endpoint # "events"
              /\ spc \in {"b_checked", "raised", "idle"}
              /\ spc # "b_checked" =>
                    /\ sresult.kind = "ExistingDataError"
                    /\ sresult.kind # "RequestFailure"

\* bulk_data_insertion has sent the ingestion request
C1_Witness ==
    /\ op = "bulk_data_insertion"
    /\ Len(sent) = 3
    /\ sent[3].endpoint = "events"

\* C4: when validate_csv or bulk_data_insertion has finished, by a return
\* or by any exception, the session's headers are those it had when the
\* operation was invoked.
C4_HeadersRestoredAfterCall ==
    (Finished /\ op \in {"validate_csv", "bulk_data_insertion"}) =>
        headers = headers_before

C8_GzipFileRemovedAfterCall ==
    (/\ Finished
     /\ op \in {"validate_csv", "bulk_data_insertion"}
     /\ sresult.kind \in {"return", "RequestFailure", "Timeout"}) =>
        fs_gzip = FALSE

(***************************************************************************)
(* Claims about write_to_csv_for_bulk_import                               *)
(***************************************************************************)
\* the data row written for record i (row 1 of the file is the header)
DataRow(i) == csv_rows[i + 1]

\* id is the part of text before its first "@" (all of it without an "@")
IsPartBeforeAt(id, text) ==
    /\ "@" \notin Range(id)
    /\ Len(id) <= Len(text)
    /\ id = SubSeq(text, 1, Len(id))
    /\ Len(id) < Len(text) => text[Len(id) + 1] = "@"

\* the record has every key the loop body reads with log[...]
HasRequiredKeys(log) == Range(required_keys) \subseteq DOMAIN log

\* C9: when the export has returned, the file holds one data row per record,
\* row i carries the timestamp and the description of record i, and two
\* equal records have equal rows wherever they stand in the input (a row
\* depends on its own record, the report-suite id and the filler only).
C9_RowDependsOnlyOnItsRecord ==
    wpc = "returned" =>
        /\ Len(csv_rows) = Len(json_data) + 1
        /\ \A i \in DOMAIN json_data :
              /\ DataRow(i).reportSuiteID = rsid
              /\ DataRow(i).userAgent = "filler_user_agent"
              /\ DataRow(i).Timestamp = timestamp_of(json_data[i].dateCreated)
              /\ DataRow(i).eVar4 = json_data[i].eventDescription
        /\ \A i, j \in DOMAIN json_data :
              json_data[i] = json_data[j] => DataRow(i) = DataRow(j)

\* C10: the export does not fail at a record that has every required key
\* and a null login; every row written for a record with a null login has
\* the visitor identifier "unknown", and every row written for a record
\* with a login has the part of the login before "@".
C10_NullLoginGivesUnknown ==
    /\ \A i \in 1..(Len(csv_rows) - 1) :
          IF json_data[i].login = Null
          THEN DataRow(i).marketingCloudVisitorID = Unknown
          ELSE IsPartBeforeAt(DataRow(i).marketingCloudVisitorID, json_data[i].login)
    /\ wpc = "raised" =>
          ~(/\ HasRequiredKeys(json_data[wresult.index])
            /\ json_data[wresult.index].login = Null)

\* the records of the file that lack a key the loop body reads
Offending == {i \in DOMAIN json_data : ~HasRequiredKeys(json_data[i])}

\* C11: when a record lacks a required field (dateCreated, eventDescription,
\* eventType, login, event) the export never returns normally and never gets
\* past that record: no row is written for it or for a record after it, and
\* the iteration that meets it raises, which ends the export.
C11_MissingFieldFailsExport ==
    /\ \A i \in Offending :
          /\ wpc # "returned"
          /\ log_index <= i
          /\ Len(csv_rows) <= i
          /\ wpc = "raised" => wresult.index <= i
    /\ (wpc = "for_log" /\ log_index \in Offending) =>
          /\ ENABLED NextExport
          /\ ~ENABLED (NextExport /\ wpc' # "raised")

\* a record in the middle of the file lacks a key: rows were written for the
\* records before it, the export raised KeyError at it, records follow it
C11_Witness ==
    /\ wpc = "raised"
    /\ wresult.kind = "KeyError"
    /\ wresult.index \in Offending
    /\ wresult.index >= 2
    /\ wresult.index < Len(json_data)
    /\ Len(csv_rows) = wresult.index

(***************************************************************************)
(* Claims about the export followed by the extraction                      *)
(***************************************************************************)
\* the calendar dates of the records' creation timestamps
CreationDates == {json_data[i].dateCreated.date : i \in DOMAIN json_data}

\* C12: after N >= 1 records were exported for report suite R and the
\* written file was parsed back, the extraction gave R and, as min and max
\* dates, the earliest and the latest calendar date of the records'
\* creation timestamps.
C12_RoundTripGivesRsidAndDates ==
    (extracted.kind = "done" /\ Len(json_data) >= 1) =>
        /\ extracted.result.raised = None
        /\ extracted.result.rsid = rsid
        /\ \A d \in CreationDates : extracted.result.min_date <= d
        /\ extracted.result.min_date \in CreationDates
        /\ \A d \in CreationDates : extracted.result.max_date >= d
        /\ extracted.result.max_date \in CreationDates

(***************************************************************************)
(* Claims about inclusive_date_range                                       *)
(***************************************************************************)
\* the order of two calendar dates, by year, then month, then day
DateBefore(a, b) ==
    \/ a.year < b.year
    \/ a.year = b.year /\ a.month < b.month
    \/ a.year = b.year /\ a.month = b.month /\ a.day < b.day

\* the day after a date, by the rules of the calendar
NextDay(c) ==
    IF c.day < DaysInMonth(c.year, c.month)
    THEN [c EXCEPT !.day = c.day + 1]
    ELSE IF c.month < 12
    THEN [year |-> c.year, month |-> c.month + 1, day |-> 1]
    ELSE [year |-> c.year + 1, month |-> 1, day |-> 1]

\* the calendar date and the second of the day of a datetime
DatetimeOf(dt) ==
    [date |-> CHOOSE c \in CalendarDates : DayOf(c) = dt \div SecondsPerDay,
     time |-> dt % SecondsPerDay]

\* C13: for start <= end the call returns the start date at 00:00:00 and,
\* as end, the second before the midnight that starts the day after the end
\* date; for start = end the window is the 86400 seconds of one calendar
\* day.  The argument dates include month ends, year ends and 2020-02-29.
C13_WindowEndsSecondBeforeNextDay ==
    (rpc # "call" /\ ~DateBefore(arg_end_date, arg_start_date)) =>
        /\ rpc = "returned"
        /\ window.raised = None
        /\ DatetimeOf(window.start) = [date |-> arg_start_date, time |-> 0]
        /\ DatetimeOf(window.end + 1) = [date |-> NextDay(arg_end_date), time |-> 0]
        /\ DatetimeOf(window.end) = [date |-> arg_end_date, time |-> SecondsPerDay - 1]
        /\ arg_start_date = arg_end_date =>
              window.end - window.start + 1 = SecondsPerDay

\* a window that starts on 2020-02-28 and ends on the leap day
C13_Witness ==
    /\ rpc = "returned"
    /\ arg_start_date = [year |-> 2020, month |-> 2, day |-> 28]
    /\ arg_end_date = [year |-> 2020, month |-> 2, day |-> 29]
    /\ DatetimeOf(window.end + 1).date = [year |-> 2020, month |-> 3, day |-> 1]

\* C14: called with a start date strictly after the end date the call raises
\* ValueError and gives no window.
C14_StartAfterEndRaises ==
    (rpc # "call" /\ DateBefore(arg_end_date, arg_start_date)) =>
        /\ rpc = "raised"
        /\ window = [raised |-> "ValueError"]

\* the start is the first of March, the end the leap day before it
C14_Witness ==
    /\ rpc = "raised"
    /\ arg_start_date = [year |-> 2020, month |-> 3, day |-> 1]
    /\ arg_end_date = [year |-> 2020, month |-> 2, day |-> 29]
    /\ window.raised = "ValueError"

(***************************************************************************)
(* Claims about the enrichment steps                                       *)
(***************************************************************************)
\* sub is a contiguous part of text
ContainsSeq(text, sub) ==
    \E i \in 0..(Len(text) - Len(sub)) : SubSeq(text, i + 1, i + Len(sub)) = sub

\* the event type is a code: an integer, or a string that int() accepts
IsCode(t) ==
    \/ t.type = "int"
    \/ t.type = "str" /\ int_of_str(t.text).raised = None

\* the number of a code
CodeNumber(t) == IF t.type = "int" THEN t.num ELSE int_of_str(t.text).value.num

\* the event type is a string that int() rejects
IsNonNumeric(t) == t.type = "str" /\ int_of_str(t.text).raised # None

\* the label written for record i, and the event type the record had
LabelOf(i) == json_file[i].eventType
CodeOf(i) == get(json_file_before[i], "eventType")

\* a record of the file before the call
HadEventType(i, t) ==
    "eventType" \in DOMAIN json_file_before[i] /\ json_file_before[i].eventType = t

C16_BadCodeDoesNotAbortBatch ==
    applied = <<"update_event_types">> =>
        /\ epc = "ready"
        /\ eresult.kind = "return"
        /\ Len(json_file) = Len(json_file_before)
        /\ \A i \in DOMAIN json_file_before :
              IF IsNonNumeric(CodeOf(i))
              THEN json_file[i] = json_file_before[i]
              ELSE /\ LabelOf(i).type = "str"
                   /\ LabelOf(i) # CodeOf(i)
                   /\ \/ LabelOf(i).text[1] = "Unknown Event Type"
                      \/ LabelOf(i).text[1] = "Unknown Event Type: "
                      \/ \E n \in DOMAIN event_types_dict :
                            LabelOf(i).text = <<event_types_dict[n]>>
                   /\ json_file[i] = set(json_file_before[i], "eventType", LabelOf(i))

\* the first record has the code "abc", the second the code "61": the first
\* is unchanged and the second is decoded
C16_Witness ==
    /\ applied = <<"update_event_types">>
    /\ Len(json_file) = 2
    /\ HadEventType(1, StrVal(<<"a", "b", "c">>))
    /\ HadEventType(2, StrVal(<<"6", "1">>))
    /\ json_file[1] = json_file_before[1]
    /\ LabelOf(2) = StrVal(<<"Api Method">>)

\* record i of the file before the call has the description d
HadDescription(i, d) ==
    /\ "eventDescription" \in DOMAIN json_file_before[i]
    /\ json_file_before[i].eventDescription = StrVal(d)

\* record i is the record it was with the three component fields added
HasComponent(i, name, id, owner) ==
    /\ DOMAIN json_file[i] =
          DOMAIN json_file_before[i] \cup {"componentName", "componentId", "componentOwner"}
    /\ \A k \in DOMAIN json_file_before[i] : json_file[i][k] = json_file_before[i][k]
    /\ json_file[i].componentName = StrVal(name)
    /\ json_file[i].componentId = StrVal(id)
    /\ json_file[i].componentOwner = StrVal(owner)

\* the description has "Name=", later a whitespace followed by "Id=" and a
\* non-whitespace character
MatchesPattern(d) ==
    \E p, q \in DOMAIN d :
        /\ p < q
        /\ q + 2 <= Len(d)
        /\ d[p] = "Name="
        /\ d[q] = " "
        /\ d[q + 1] = "Id="
        /\ d[q + 2] # " "

ComponentKeys == {"componentName", "componentId", "componentOwner"}

\* C17: after add_component_info has returned the file has the records it
\* had, in their order; a record whose description matches the pattern has
\* gained a component name, id and owner and is otherwise unchanged, the
\* owner being "N/A" when the description names none; a record whose
\* description does not match, or that has no description, is unchanged.
C17_ComponentInfoAdded ==
    (applied = <<"add_component_info">> /\ eresult.kind = "return") =>
        /\ Len(json_file) = Len(json_file_before)
        /\ \A i \in DOMAIN json_file_before :
              /\ HadDescription(i, DescriptionWithOwner)
                    => HasComponent(i, <<"Foo", " ", "Bar">>, <<"s1">>,
                                    <<"Jane", " ", "Smith">>)
              /\ HadDescription(i, DescriptionWithoutOwner)
                    => HasComponent(i, <<"Foo">>, <<"s2">>, <<"N/A">>)
              /\ HadDescription(i, DescriptionWithEmptyOwner)
                    => HasComponent(i, <<>>, <<"s3">>, <<"N/A">>)
              /\ IF /\ "eventDescription" \in DOMAIN json_file_before[i]
                    /\ MatchesPattern(json_file_before[i].eventDescription.text)
                 THEN /\ ComponentKeys \subseteq DOMAIN json_file[i]
                      /\ \A k \in DOMAIN json_file_before[i] :
                            json_file[i][k] = json_file_before[i][k]
                      /\ ~ContainsSeq(json_file_before[i].eventDescription.text,
                                      <<" ", "Owner=">>)
                            => json_file[i].componentOwner = StrVal(<<"N/A">>)
                 ELSE json_file[i] = json_file_before[i]

\* a description without an owner and one that does not match the pattern
C17_Witness ==
    /\ applied = <<"add_component_info">>
    /\ eresult.kind = "return"
    /\ Len(json_file) = 2
    /\ HadDescription(1, DescriptionWithoutOwner)
    /\ HadDescription(2, DescriptionOfLogin)
    /\ json_file[1].componentOwner = StrVal(<<"N/A">>)
    /\ json_file[2] = json_file_before[2]

\* the steps, the keys each step writes, and each step applied on its own
\* to a file
Steps == {"update_event_types", "add_component_info", "add_adobe_events"}

KeysWritten(step) ==
    CASE step = "update_event_types" -> {"eventType"}
      [] step = "add_component_info" -> ComponentKeys
      [] OTHER                       -> {"event"}

Alone(step, data) ==
    CASE step = "update_event_types" -> update_events(data)
      [] step = "add_component_info" -> add_components(data)
      [] OTHER                       -> add_events(data)

\* the calls made so far are calls of different steps
NoStepTwice == \A i, j \in DOMAIN applied : applied[i] = applied[j] => i = j

\* record i of the two files agrees on the keys: the same keys are present
\* with the same values
AgreeOn(keys, a, b) ==
    \A k \in keys :
        /\ k \in DOMAIN a <=> k \in DOMAIN b
        /\ k \in DOMAIN a => a[k] = b[k]

\* C18: whatever the order of the calls, a step that returns has written to
\* the keys it writes what it writes when it is applied on its own to the
\* original file, and has left the other keys alone; a step fails after
\* other steps exactly when it fails on its own; so the six orders of the
\* three steps end with the same file, the one that the order
\* update_event_types, add_component_info, add_adobe_events gives.
C18_StepsCommute ==
    NoStepTwice =>
        /\ \A n \in DOMAIN applied :
              (n < Len(applied) \/ epc = "ready") =>
                  LET alone == Alone(applied[n], json_file_before)
                  IN  /\ alone.raised = None
                      /\ Len(json_file) = Len(json_file_before)
                      /\ \A i \in DOMAIN json_file :
                            AgreeOn(KeysWritten(applied[n]), json_file[i],
                                    alone.data[i])
        /\ (epc = "raised") =>
              Alone(applied[Len(applied)], json_file_before).raised = eresult.kind
        /\ \A i \in DOMAIN json_file :
              \A k \in (DOMAIN json_file[i] \cup DOMAIN json_file_before[i]) :
                 (\A n \in DOMAIN applied : k \notin KeysWritten(applied[n]))
                    => AgreeOn({k}, json_file[i], json_file_before[i])
        /\ (Len(applied) = 3 /\ epc = "ready") =>
              json_file =
                 add_events(add_components(update_events(json_file_before).data).data).data

\* the three steps were applied in the reverse of the usual order to a
\* record with the code 1 and a description that names a component
C18_Witness ==
    /\ applied = <<"add_adobe_events", "add_component_info", "update_event_types">>
    /\ epc = "ready"
    /\ Len(json_file) >= 1
    /\ HadEventType(1, IntVal(1))
    /\ HadDescription(1, DescriptionWithOwner)
    /\ json_file[1].eventType = StrVal(<<"Login failed">>)
    /\ json_file[1].event = StrVal(<<"event6">>)
    /\ json_file[1].componentId = StrVal(<<"s1">>)

\* update_event_types has rewritten the file and no call has raised
EventTypesWritten == Calls("update_event_types") >= 1 /\ epc = "ready"

\* C21: update_event_types is idempotent.  The event types of a file it has
\* written are strings that int() rejects (a label of the table, "Unknown
\* Event Type: " followed by the code or by None, the sentinel "Unknown
\* Event Type", or a non-numeric string it had left in place), and a
\* second call on such a file returns and leaves every record as it was.
C21_UpdateEventTypesIdempotent ==
    /\ [](EventTypesWritten =>
             \A i \in DOMAIN json_file :
                 /\ "eventType" \in DOMAIN json_file[i]
                 /\ IsNonNumeric(json_file[i].eventType))
    /\ [][UpdateEventTypesAgain =>
             /\ json_file' = json_file
             /\ eresult'.kind = "return"
             /\ epc' = "ready"]_vars

\* a file with a code of the table and a code outside it has been through
\* update_event_types twice
C21_Witness ==
    /\ Calls("update_event_types") = 2
    /\ Len(json_file) = 2
    /\ HadEventType(1, IntVal(1))
    /\ HadEventType(2, StrVal(<<"9", "9", "9", "9">>))
    /\ json_file[1].eventType = StrVal(<<"Login failed">>)
    /\ json_file[2].eventType =
          StrVal(<<"Unknown Event Type: ", "9", "9", "9", "9">>)

\* the sentinel and "Unknown Event Type: None" have been through
\* update_event_types twice
C21_WitnessSentinel ==
    /\ Calls("update_event_types") = 2
    /\ Len(json_file) = 2
    /\ HadEventType(1, JsonNull)
    /\ HadEventType(2, FloatVal(1, 5))
    /\ json_file[1].eventType = StrVal(<<"Unknown Event Type">>)
    /\ json_file[2].eventType = StrVal(<<"Unknown Event Type: ", "None">>)

(***************************************************************************)
(* Claims about the filters and the termination of get_usage_audit_logs    *)
(***************************************************************************)
\* the caller supplied the filter: it is not None and not the empty text
Supplied(k) == filters[k] # JsonNull /\ filters[k] # StrVal(<<>>)

\* requests i and j belong to one sub-window: no first page lies between
SameWindow(i, j) == i <= j /\ \A m \in (i + 1)..j : exchanges[m].params.page # 0

\* C19: every page request carries each filter the caller supplied, with
\* the supplied value, and the requests of one sub-window carry the same
\* startDate, endDate and limit and consecutive page indexes.
C19_RequestsCarryFilters ==
    \A i \in DOMAIN exchanges :
        /\ \A k \in DOMAIN filters :
              Supplied(k) =>
                 /\ k \in DOMAIN exchanges[i].params
                 /\ exchanges[i].params[k] = filters[k]
        /\ \A j \in DOMAIN exchanges :
              SameWindow(i, j) =>
                 /\ exchanges[j].params.startDate = exchanges[i].params.startDate
                 /\ exchanges[j].params.endDate = exchanges[i].params.endDate
                 /\ exchanges[j].params.limit = exchanges[i].params.limit
                 /\ exchanges[j].params.page = exchanges[i].params.page + (j - i)

\* the invocation has returned or raised
FetchEnded == fpc \in {"returned", "raised"}

\* C20: with a server that answers every request and ends every sub-window
\* after finitely many pages, the invocation ends for every date range;
\* each time a sub-window is finished the window start has moved on by at
\* least one day; and a call with start > end returns the empty list
\* without having sent a request.
C20_FetchTerminates ==
    /\ <>FetchEnded
    /\ [][fpc = "while_page" /\ fpc' = "while_window"
            => start_date_dt' >= start_date_dt + SecondsPerDay]_<<fpc, exchanges>>
    /\ [](start_date > end_date => exchanges = <<>>)
    /\ (start_date > end_date)
          ~> (fpc = "returned" /\ fresult.value = <<>> /\ exchanges = <<>>)

\* a range of two sub-windows, one of them of several pages, was fetched to
\* the end
C20_Witness ==
    /\ fpc = "returned"
    /\ Len(WindowSeq) = 2
    /\ Len(exchanges) > 2

\* a call with the start after the end has returned
C20_WitnessEmptyRange ==
    /\ fpc = "returned"
    /\ start_date > end_date
    /\ exchanges = <<>>

====
